---- MODULE Spec2Model ----
(***************************************************************************)
(* The request boundary of the anonymizer REST server                      *)
(* (presidio-anonymizer/app.py): the POST handlers /anonymize,             *)
(* /deanonymize and /genz, the translation of the JSON payload, the call   *)
(* of the engines and the three error handlers.                            *)
(*                                                                         *)
(* A request is followed through the handler one step at a time, so that   *)
(* requests served by different workers interleave.                        *)
(***************************************************************************)
EXTENDS Integers, Sequences, FiniteSets, TLC

\* Longest analyzer_results / anonymizer_results list a request carries.
MaxEntities == 1
\* Number of requests in flight together in ConcSpec.
NumRequests == 2

Requests == 1 .. NumRequests

Endpoints == {"/anonymize", "/deanonymize", "/genz"}

(***************************************************************************)
(* JSON values.  An optional value is a sequence of length 0 or 1.         *)
(***************************************************************************)
Absent == <<>>
Some(v) == <<v>>
Present(o) == o # <<>>
Get(o, default) == IF o = <<>> THEN default ELSE o[1]

\* Texts are sequences of characters.
SampleText == <<"a", "b", "c">>
Texts == {SampleText, <<"x", "y">>}

\* Entities as they come over the wire: entity_type, start, end and, for the
\* deanonymize variant, the restoration metadata.
EntityJson(t, s, e, m) == [entity_type |-> t, start |-> s, end |-> e, restore |-> m]
EntityJsons ==
    { EntityJson("PERSON", 0, 2, Absent),        \* well formed
      EntityJson("PERSON", 1, 1, Absent),        \* zero width: start >= end
      EntityJson("PERSON", 1, 5, Absent),        \* beyond the end of the text
      EntityJson("PHONE_NUMBER", 2, 3, Absent),  \* a type with no rule of its own
      EntityJson("PERSON", 0, 1, Some("key")) }  \* with restoration metadata

\* Operator configs as they come over the wire: {type, ...params}.
OperatorJson(t, v) == [type |-> t, new_value |-> v]
OperatorJsons ==
    { OperatorJson(Some("replace"), Some(<<"G">>)),
      OperatorJson(Some("redact"), Absent),
      OperatorJson(Some("custom"), Absent),
      OperatorJson(Some("bogus"), Absent),       \* unknown operator name
      OperatorJson(Absent, Absent) }             \* no type at all

OperatorKeys == {"PERSON", "DEFAULT"}

\* All sequences over S of length at most n.
SeqsUpTo(S, n) == UNION { [1 .. k -> S] : k \in 0 .. n }

EntityLists == SeqsUpTo(EntityJsons, MaxEntities)

\* A JSON mapping keeps the order of its entries: a sequence of <<key, value>>
\* with distinct keys.
OperatorMappings ==
    { m \in SeqsUpTo(OperatorKeys \X OperatorJsons, Cardinality(OperatorKeys)) :
        \A i, j \in 1 .. Len(m) : i # j => m[i][1] # m[j][1] }

\* The parsed JSON body.  kind is the JSON type, a number being an "integer"
\* or, with a fraction or an exponent, a "float"; nonzero tells 0 from 5, 0.0
\* from 1.5, "" from "abc", [] from [1] and false from true; the fields are
\* those of a JSON object.
Json(kind, nonzero, text, ar, an, anr, de) ==
    [kind |-> kind, nonzero |-> nonzero, text |-> text,
     analyzer_results |-> ar, anonymizers |-> an,
     anonymizer_results |-> anr, deanonymizers |-> de]

JsonNull == Json("null", FALSE, Absent, Absent, Absent, Absent, Absent)
Scalar(kind, nonzero) == Json(kind, nonzero, Absent, Absent, Absent, Absent, Absent)

ScalarBodies ==
    { Scalar(k, nz) : k \in {"array", "string", "integer", "float", "boolean"}, nz \in BOOLEAN }

OptTexts == {Absent} \cup { Some(t) : t \in Texts }
OptEntityLists == {Absent} \cup { Some(l) : l \in EntityLists }
OptOperatorMappings == {Absent} \cup { Some(m) : m \in OperatorMappings }

\* Objects shaped for /anonymize and /genz, and for /deanonymize.  The object
\* with no field at all is {}.
AnonymizeBodies ==
    { Json("object", TRUE, t, ar, an, Absent, Absent) :
        t \in OptTexts, ar \in OptEntityLists, an \in OptOperatorMappings }
DeanonymizeBodies ==
    { Json("object", TRUE, t, Absent, Absent, anr, de) :
        t \in OptTexts, anr \in OptEntityLists, de \in OptOperatorMappings }

Bodies == {JsonNull} \cup ScalarBodies \cup AnonymizeBodies \cup DeanonymizeBodies

\* Python truth value of the parsed body: None, {}, [], 0, False and "" are
\* falsy.
Truthy(c) ==
    IF c.kind = "null" THEN FALSE
    ELSE IF c.kind = "object"
         THEN \/ Present(c.text)
              \/ Present(c.analyzer_results)
              \/ Present(c.anonymizers)
              \/ Present(c.anonymizer_results)
              \/ Present(c.deanonymizers)
         ELSE c.nonzero

PyType(c) ==
    CASE c.kind = "array" -> "list"
      [] c.kind = "string" -> "str"
      [] c.kind = "integer" -> "int"
      [] c.kind = "float" -> "float"
      [] c.kind = "boolean" -> "bool"
      [] c.kind = "null" -> "NoneType"
      [] OTHER -> "dict"

(***************************************************************************)
(* Exceptions.                                                             *)
(***************************************************************************)
Exc(cls, code, msg) == [cls |-> cls, code |-> code, msg |-> msg]
NoExc == Exc("none", 0, "")
BadRequest(msg) == Exc("BadRequest", 400, msg)
InvalidParamError(msg) == Exc("InvalidParamError", 0, msg)
AttributeError(c, attr) ==
    Exc("AttributeError", 0,
        "'" \o PyType(c) \o "' object has no attribute '" \o attr \o "'")

\* The classes an exception class inherits from (itself included).
Bases(cls) ==
    CASE cls = "BadRequest" -> {"BadRequest", "HTTPException", "Exception"}
      [] cls = "InvalidParamError" -> {"InvalidParamError", "Exception"}
      [] cls = "AttributeError" -> {"AttributeError", "Exception"}
      [] OTHER -> {}

(***************************************************************************)
(* The request translator (AppEntitiesConvertor) and the entity models.    *)
(* Every operation returns either a value or the exception it raises.      *)
(***************************************************************************)
Ok(v) == [exc |-> NoExc, val |-> v]
Raise(e) == [exc |-> e, val |-> <<>>]
Failed(o) == o.exc # NoExc

\* The registry of operator kinds the translator accepts; "custom" is the
\* reserved kind of in-process callables.
OperatorKinds == {"mask", "hash", "redact", "encrypt", "replace", "keep", "custom"}

\* The validating constructor of one detected entity: start < end, offsets
\* not negative.
RecognizerResult_from_json(j) ==
    IF j.start < 0 \/ j.start >= j.end
    THEN Raise(InvalidParamError("Invalid input, start index must be smaller than end index"))
    ELSE Ok([entity_type |-> j.entity_type, start |-> j.start, end |-> j.end])

\* The validating constructor of one anonymized span: that of a detected
\* entity, and the restoration metadata must be there.
OperatorResult_from_json(j) ==
    IF Failed(RecognizerResult_from_json(j)) THEN RecognizerResult_from_json(j)
    ELSE IF ~Present(j.restore)
         THEN Raise(InvalidParamError("Invalid input, restoration metadata is missing"))
         ELSE Ok([entity_type |-> j.entity_type, start |-> j.start, end |-> j.end])

\* The first failure of the constructor over the list, or the list of the
\* entities it built, in order.
RECURSIVE ParseRecognizerResults(_, _)
ParseRecognizerResults(list, acc) ==
    IF list = <<>> THEN Ok(acc)
    ELSE IF Failed(RecognizerResult_from_json(Head(list)))
         THEN RecognizerResult_from_json(Head(list))
         ELSE ParseRecognizerResults(Tail(list),
                  Append(acc, RecognizerResult_from_json(Head(list)).val))

RECURSIVE ParseOperatorResults(_, _)
ParseOperatorResults(list, acc) ==
    IF list = <<>> THEN Ok(acc)
    ELSE IF Failed(OperatorResult_from_json(Head(list)))
         THEN OperatorResult_from_json(Head(list))
         ELSE ParseOperatorResults(Tail(list),
                  Append(acc, OperatorResult_from_json(Head(list)).val))

\* parse_entities: absent input is a validation failure, the empty list is
\* valid.
analyzer_results_from_json(data) ==
    IF ~Present(data)
    THEN Raise(InvalidParamError("Invalid input, analyzer results can not be empty"))
    ELSE ParseRecognizerResults(data[1], <<>>)

\* parse_deanonymize_entities: reads the entity list out of the whole body.
deanonymize_entities_from_json(data) ==
    IF ~Present(data.anonymizer_results)
    THEN Raise(InvalidParamError("Invalid input, anonymizer results can not be empty"))
    ELSE ParseOperatorResults(data.anonymizer_results[1], <<>>)

\* The validating constructor of one operator config.
OperatorConfig(name, params) == [operator_name |-> name, params |-> params]
OperatorConfig_from_json(j) ==
    IF ~Present(j.type)
    THEN Raise(InvalidParamError("Invalid input, operator config must contain operator_name"))
    ELSE IF j.type[1] \notin OperatorKinds
         THEN Raise(InvalidParamError("Invalid operator class '" \o j.type[1] \o "'."))
         ELSE Ok(OperatorConfig(j.type[1], [new_value |-> j.new_value]))

\* The implicit DEFAULT rule: replace with the placeholder.
DefaultOperators ==
    [k \in {"DEFAULT"} |-> OperatorConfig("replace", [new_value |-> Absent])]

\* The mapping acc with key k bound to v.
Bind(acc, k, v) == [x \in DOMAIN acc \cup {k} |-> IF x = k THEN v ELSE acc[x]]

RECURSIVE ParseOperators(_, _)
ParseOperators(pairs, acc) ==
    IF pairs = <<>> THEN Ok(acc)
    ELSE IF Failed(OperatorConfig_from_json(Head(pairs)[2]))
         THEN OperatorConfig_from_json(Head(pairs)[2])
         ELSE ParseOperators(Tail(pairs),
                  Bind(acc, Head(pairs)[1], OperatorConfig_from_json(Head(pairs)[2]).val))

\* parse_operator_configs: absent input stands for the implicit DEFAULT rule
\* alone.
operators_config_from_json(data) ==
    IF ~Present(data) THEN Ok(DefaultOperators)
    ELSE ParseOperators(data[1], <<>>)

\* reject_custom_operator: some parsed operator has kind "custom".
check_custom_operator(operators) ==
    \E k \in DOMAIN operators : operators[k].operator_name = "custom"

(***************************************************************************)
(* The engines, by their contract: a pure function of (text, entities,     *)
(* operators).                                                             *)
(***************************************************************************)
Before(a, b) == a.start < b.start \/ (a.start = b.start /\ a.end <= b.end)

RECURSIVE Insert(_, _)
Insert(e, sorted) ==
    IF sorted = <<>> THEN <<e>>
    ELSE IF Before(e, Head(sorted)) THEN <<e>> \o sorted
         ELSE <<Head(sorted)>> \o Insert(e, Tail(sorted))

\* Ascending by start offset, ties by end offset, stable.
RECURSIVE SortEntities(_)
SortEntities(list) ==
    IF list = <<>> THEN <<>>
    ELSE Insert(list[Len(list)], SortEntities(SubSeq(list, 1, Len(list) - 1)))

\* The rule of an entity: the one of its type, else the DEFAULT one.
HasRule(e, operators) ==
    e.entity_type \in DOMAIN operators \/ "DEFAULT" \in DOMAIN operators
RuleOf(e, operators) ==
    IF e.entity_type \in DOMAIN operators THEN operators[e.entity_type]
    ELSE operators["DEFAULT"]

\* What an operator puts in place of the span.
Replacement(op, e, text) ==
    CASE op.operator_name = "replace" ->
             Get(op.params.new_value, <<"<" \o e.entity_type \o ">">>)
      [] op.operator_name = "redact" -> <<>>
      [] op.operator_name = "keep" -> SubSeq(text, e.start + 1, e.end)
      [] op.operator_name = "mask" -> [i \in 1 .. (e.end - e.start) |-> "*"]
      [] OTHER -> <<"<" \o op.operator_name \o ">">>

\* The first engine-level failure among the entities, if any.
RECURSIVE EngineCheck(_, _, _)
EngineCheck(text, entities, operators) ==
    IF entities = <<>> THEN NoExc
    ELSE IF Head(entities).end > Len(text)
         THEN InvalidParamError("Invalid analyzer result, start or end index is out of text bounds")
    ELSE IF ~HasRule(Head(entities), operators)
         THEN InvalidParamError("Invalid input, no operator for entity type "
                                  \o Head(entities).entity_type)
    ELSE IF RuleOf(Head(entities), operators).operator_name = "custom"
         THEN InvalidParamError("New value must be a callable function")
    ELSE EngineCheck(text, Tail(entities), operators)

\* The sorted entities applied left to right; an entity overlapping one
\* already applied is dropped.  out is the output text so far, cursor the
\* offset in text up to which it is consumed.
RECURSIVE Operate(_, _, _, _, _, _)
Operate(text, entities, operators, cursor, out, items) ==
    IF entities = <<>>
    THEN [text |-> out \o SubSeq(text, cursor + 1, Len(text)), items |-> items]
    ELSE LET e == Head(entities)
             rep == Replacement(RuleOf(e, operators), e, text)
             upto == out \o SubSeq(text, cursor + 1, e.start) \o rep
         IN  IF e.start < cursor
             THEN Operate(text, Tail(entities), operators, cursor, out, items)
             ELSE Operate(text, Tail(entities), operators, e.end, upto,
                      Append(items,
                          [entity_type |-> e.entity_type,
                           start |-> Len(upto) - Len(rep),
                           end |-> Len(upto),
                           operator |-> RuleOf(e, operators).operator_name]))

AnonymizerEngine_anonymize(text, analyzer_results, operators) ==
    IF EngineCheck(text, SortEntities(analyzer_results), operators) # NoExc
    THEN Raise(EngineCheck(text, SortEntities(analyzer_results), operators))
    ELSE Ok(Operate(text, SortEntities(analyzer_results), operators, 0, <<>>, <<>>))

DeanonymizeEngine_deanonymize(text, entities, operators) ==
    IF EngineCheck(text, SortEntities(entities), operators) # NoExc
    THEN Raise(EngineCheck(text, SortEntities(entities), operators))
    ELSE Ok(Operate(text, SortEntities(entities), operators, 0, <<>>, <<>>))

(***************************************************************************)
(* The server.                                                             *)
(***************************************************************************)
VARIABLES
    state,      \* state[r]: where request r is in the pipeline
    request,    \* request[r]: the endpoint and the JSON body of request r
    content,    \* content[r]: the handler's local `content`
    parsed,     \* parsed[r]: the handler's locals after translation
    result,     \* result[r]: what the engine returned
    response,   \* response[r]: the response sent, once Responded
    calls,      \* calls[r]: the calls the handler has made, in order
    raised,     \* raised[r]: the exception the request failed with, and where
    log         \* the records handed to the server's logger, shared by all requests

vars == <<state, request, content, parsed, result, response, calls, raised, log>>

States == {"Idle", "Received", "Translating", "Dispatching", "Serializing", "Responded"}

NoRequest == [endpoint |-> "", body |-> JsonNull]
NoParsed == [text |-> <<>>, entities |-> <<>>, operators |-> <<>>]
NoResult == [text |-> <<>>, items |-> <<>>]
NoResponse == [status |-> 0, mimetype |-> "", error |-> "", text |-> <<>>, items |-> <<>>]
NoRaised == [exc |-> NoExc, in |-> ""]

\* jsonify(error=msg), status
ErrorResponse(status, msg) ==
    [status |-> status, mimetype |-> "application/json", error |-> msg,
     text |-> <<>>, items |-> <<>>]
\* Response(result.to_json(), mimetype="application/json")
ResultResponse(res) ==
    [status |-> 200, mimetype |-> "application/json", error |-> "",
     text |-> res.text, items |-> res.items]

LogLine(level, msg, arg) == [level |-> level, msg |-> msg, arg |-> arg]

\* The banner logged at startup.
WELCOME_MESSAGE ==
    "\n _______  _______  _______  _______ _________ ______  _________ _______\n(  ____ )(  ____ )(  ____ \\(  ____ \\\\__   __/(  __  \\ \\__   __/(  ___  )\n| (    )|| (    )|| (    \\/| (    \\/   ) (   | (  \\  )   ) (   | (   ) |\n| (____)|| (____)|| (__    | (_____    | |   | |   ) |   | |   | |   | |\n|  _____)|     __)|  __)   (_____  )   | |   | |   | |   | |   | |   | |\n| (      | (\\ (   | (            ) |   | |   | |   ) |   | |   | |   | |\n| )      | ) \\ \\__| (____/\\/\\____) |___) (___| (__/  )___) (___| (___) |\n|/       |/   \\__/(_______/\\_______)\\_______/(______/ \\_______/(_______)\n"

\* str(e)
StrOf(e) ==
    IF "HTTPException" \in Bases(e.cls) THEN "400 Bad Request: " \o e.msg ELSE e.msg

\* The three error handlers: the response and what is logged.
invalid_param(err) ==
    [response |-> ErrorResponse(422, err.msg),
     log |-> <<LogLine("warning", "Request failed with parameter validation error: ", err.msg)>>]

http_exception(e) ==
    [response |-> ErrorResponse(e.code, e.msg), log |-> <<>>]

ServerErrorEchoes(e) ==
    [response |-> ErrorResponse(500, StrOf(e)),
     log |-> <<LogLine("error", "A fatal error occurred during execution: ", StrOf(e))>>]

server_error(e) ==
    [response |-> ErrorResponse(500, "Internal server error"),
     log |-> <<LogLine("error", "A fatal error occurred during execution: ", StrOf(e))>>]

HandleExceptionValidationAsBadRequest(e) ==
    IF "HTTPException" \in Bases(e.cls) \/ "InvalidParamError" \in Bases(e.cls)
    THEN [response |-> ErrorResponse(400, e.msg), log |-> <<>>]
    ELSE server_error(e)

\* The handler registered for the most specific class of the exception.
HandleException(e) ==
    IF "InvalidParamError" \in Bases(e.cls) THEN invalid_param(e)
    ELSE IF "HTTPException" \in Bases(e.cls) THEN http_exception(e)
    ELSE server_error(e)

\* What the handler's own except clause logs before it raises the exception
\* again: only /genz has one.
ExceptClause(endpoint, e) ==
    IF endpoint = "/genz"
    THEN <<LogLine("error", "Error in /genz endpoint: ", StrOf(e))>>
    ELSE <<>>

\* flask.request resolves to the request of the calling context.
GetJsonOfFirstRequest(r) == request[1].body

get_json(r) == request[r].body

\* if not content: raise BadRequest("Invalid request json")
BodyCheckNoneOnly(c) ==
    IF c.kind = "null" THEN BadRequest("Invalid request json") ELSE NoExc

BodyCheckMissing(c) == NoExc

BodyCheck(c) ==
    IF ~Truthy(c) THEN BadRequest("Invalid request json") ELSE NoExc

\* What the translating part of a handler leaves: the exception it raised or
\* the locals it built, and the calls it made.
Translated(cs, text, entities, operators) ==
    [exc |-> NoExc, calls |-> cs, text |-> text, entities |-> entities,
     operators |-> operators]
Raised(cs, e) ==
    [exc |-> e, calls |-> cs, text |-> <<>>, entities |-> <<>>, operators |-> <<>>]

AnonymizeTranslateEntitiesFirst(c) ==
    IF c.kind # "object" THEN Raised(<<>>, AttributeError(c, "get"))
    ELSE LET ops == operators_config_from_json(c.anonymizers)
             ents == analyzer_results_from_json(c.analyzer_results)
         IN  IF Failed(ops) THEN Raised(<<"operators_config_from_json">>, ops.exc)
             ELSE IF Failed(ents)
                  THEN Raised(<<"operators_config_from_json",
                                "analyzer_results_from_json">>, ents.exc)
             ELSE IF check_custom_operator(ops.val)
                  THEN Raised(<<"operators_config_from_json",
                                "analyzer_results_from_json", "check_custom_operator">>,
                              BadRequest("Custom type anonymizer is not supported"))
             ELSE Translated(<<"operators_config_from_json",
                               "analyzer_results_from_json", "check_custom_operator">>,
                             Get(c.text, <<>>), ents.val, ops.val)

AnonymizeTranslateSkipsBadEntities(c) ==
    IF c.kind # "object" THEN Raised(<<>>, AttributeError(c, "get"))
    ELSE LET ops == operators_config_from_json(c.anonymizers)
             ents == analyzer_results_from_json(c.analyzer_results)
         IN  IF Failed(ops) THEN Raised(<<"operators_config_from_json">>, ops.exc)
             ELSE IF check_custom_operator(ops.val)
                  THEN Raised(<<"operators_config_from_json", "check_custom_operator">>,
                              BadRequest("Custom type anonymizer is not supported"))
             ELSE Translated(<<"operators_config_from_json", "check_custom_operator",
                               "analyzer_results_from_json">>,
                             Get(c.text, <<>>),
                             IF Failed(ents) THEN <<>> ELSE ents.val, ops.val)

AnonymizeTranslateRequiresEntities(c) ==
    IF c.kind # "object" THEN Raised(<<>>, AttributeError(c, "get"))
    ELSE LET ops == operators_config_from_json(c.anonymizers)
             ents == analyzer_results_from_json(c.analyzer_results)
         IN  IF Failed(ops) THEN Raised(<<"operators_config_from_json">>, ops.exc)
             ELSE IF check_custom_operator(ops.val)
                  THEN Raised(<<"operators_config_from_json", "check_custom_operator">>,
                              BadRequest("Custom type anonymizer is not supported"))
             ELSE IF Get(c.analyzer_results, <<>>) = <<>>
                  THEN Raised(<<"operators_config_from_json", "check_custom_operator">>,
                              BadRequest("Invalid request json"))
             ELSE IF Failed(ents)
                  THEN Raised(<<"operators_config_from_json", "check_custom_operator",
                                "analyzer_results_from_json">>, ents.exc)
             ELSE Translated(<<"operators_config_from_json", "check_custom_operator",
                               "analyzer_results_from_json">>,
                             Get(c.text, <<>>), ents.val, ops.val)

\* /anonymize, from the body check to the engine call: the operator configs,
\* the custom check, then the analyzer results.
AnonymizeTranslate(c) ==
    IF c.kind # "object" THEN Raised(<<>>, AttributeError(c, "get"))
    ELSE LET ops == operators_config_from_json(c.anonymizers)
             ents == analyzer_results_from_json(c.analyzer_results)
         IN  IF Failed(ops) THEN Raised(<<"operators_config_from_json">>, ops.exc)
             ELSE IF check_custom_operator(ops.val)
                  THEN Raised(<<"operators_config_from_json", "check_custom_operator">>,
                              BadRequest("Custom type anonymizer is not supported"))
             ELSE IF Failed(ents)
                  THEN Raised(<<"operators_config_from_json", "check_custom_operator",
                                "analyzer_results_from_json">>, ents.exc)
             ELSE Translated(<<"operators_config_from_json", "check_custom_operator",
                               "analyzer_results_from_json">>,
                             Get(c.text, <<>>), ents.val, ops.val)

\* /deanonymize: the entities out of the whole body, then the operator
\* configs.
DeanonymizeTranslate(c) ==
    IF c.kind # "object" THEN Raised(<<>>, AttributeError(c, "get"))
    ELSE LET ents == deanonymize_entities_from_json(c)
             ops == operators_config_from_json(c.deanonymizers)
         IN  IF Failed(ents) THEN Raised(<<"deanonymize_entities_from_json">>, ents.exc)
             ELSE IF Failed(ops)
                  THEN Raised(<<"deanonymize_entities_from_json",
                                "operators_config_from_json">>, ops.exc)
             ELSE Translated(<<"deanonymize_entities_from_json",
                               "operators_config_from_json">>,
                             Get(c.text, <<>>), ents.val, ops.val)

\* /genz: analyzer_results defaults to [], anonymizers to {}; the analyzer
\* results, then the operator configs; no custom check.
GenzTranslate(c) ==
    IF c.kind # "object" THEN Raised(<<>>, AttributeError(c, "get"))
    ELSE LET ents == analyzer_results_from_json(Some(Get(c.analyzer_results, <<>>)))
             ops == operators_config_from_json(Some(Get(c.anonymizers, <<>>)))
         IN  IF Failed(ents) THEN Raised(<<"analyzer_results_from_json">>, ents.exc)
             ELSE IF Failed(ops)
                  THEN Raised(<<"analyzer_results_from_json",
                                "operators_config_from_json">>, ops.exc)
             ELSE Translated(<<"analyzer_results_from_json",
                               "operators_config_from_json">>,
                             Get(c.text, <<>>), ents.val, ops.val)

TranslateOf(endpoint, c) ==
    CASE endpoint = "/anonymize" -> AnonymizeTranslate(c)
      [] endpoint = "/deanonymize" -> DeanonymizeTranslate(c)
      [] OTHER -> GenzTranslate(c)

\* The engine a handler calls, and the name of the call.
EngineCall(endpoint) ==
    IF endpoint = "/deanonymize" THEN "deanonymize" ELSE "anonymize"
EngineOf(endpoint, p) ==
    IF endpoint = "/deanonymize"
    THEN DeanonymizeEngine_deanonymize(p.text, p.entities, p.operators)
    ELSE AnonymizerEngine_anonymize(p.text, p.entities, p.operators)

(***************************************************************************)
(* The steps of a request.                                                 *)
(***************************************************************************)
Init ==
    /\ state = [r \in Requests |-> "Idle"]
    /\ request = [r \in Requests |-> NoRequest]
    /\ content = [r \in Requests |-> JsonNull]
    /\ parsed = [r \in Requests |-> NoParsed]
    /\ result = [r \in Requests |-> NoResult]
    /\ response = [r \in Requests |-> NoResponse]
    /\ calls = [r \in Requests |-> <<>>]
    /\ raised = [r \in Requests |-> NoRaised]
    /\ log = <<LogLine("info", "Starting anonymizer engine", ""),
               LogLine("info", WELCOME_MESSAGE, "")>>

\* An exception leaves the handler: the except clause of the handler, if it
\* has one, logs it and raises it again.  The request stays where it failed
\* until the error handler answers.
Fail(r, e) ==
    /\ raised' = [raised EXCEPT ![r] = [exc |-> e, in |-> state[r]]]
    /\ log' = log \o ExceptClause(request[r].endpoint, e)
    /\ UNCHANGED <<state, response>>

\* The exception of request r is on its way to the error handler.
Raising(r) == raised[r].exc # NoExc /\ state[r] # "Responded"

Advance(r, next) ==
    /\ state' = [state EXCEPT ![r] = next]
    /\ UNCHANGED <<response, log, raised>>

\* A POST request reaches one of the three routes, with one of the payloads.
Arrive(r, payloads) ==
    /\ state[r] = "Idle"
    /\ state' = [state EXCEPT ![r] = "Received"]
    /\ \E endpoint \in Endpoints, body \in payloads :
           request' = [request EXCEPT ![r] = [endpoint |-> endpoint, body |-> body]]
    /\ UNCHANGED <<content, parsed, result, response, calls, raised, log>>

\* content = request.get_json(); if not content: raise BadRequest(...)
ReadBody(r) ==
    /\ state[r] = "Received" /\ ~Raising(r)
    /\ content' = [content EXCEPT ![r] = get_json(r)]
    /\ calls' = [calls EXCEPT ![r] = Append(@, "get_json")]
    /\ IF BodyCheck(get_json(r)) # NoExc
       THEN Fail(r, BodyCheck(get_json(r)))
       ELSE Advance(r, "Translating")
    /\ UNCHANGED <<request, parsed, result>>

\* The translation of the payload into entities and operator configs.
Translate(r) ==
    /\ state[r] = "Translating" /\ ~Raising(r)
    /\ LET t == TranslateOf(request[r].endpoint, content[r])
       IN  /\ calls' = [calls EXCEPT ![r] = @ \o t.calls]
           /\ IF t.exc # NoExc
              THEN Fail(r, t.exc) /\ UNCHANGED parsed
              ELSE /\ Advance(r, "Dispatching")
                   /\ parsed' = [parsed EXCEPT ![r] =
                          [text |-> t.text, entities |-> t.entities,
                           operators |-> t.operators]]
    /\ UNCHANGED <<request, content, result>>

\* The call of the engine.
Dispatch(r) ==
    /\ state[r] = "Dispatching" /\ ~Raising(r)
    /\ calls' = [calls EXCEPT ![r] = Append(@, EngineCall(request[r].endpoint))]
    /\ LET e == EngineOf(request[r].endpoint, parsed[r])
       IN  IF Failed(e)
           THEN Fail(r, e.exc) /\ UNCHANGED result
           ELSE Advance(r, "Serializing") /\ result' = [result EXCEPT ![r] = e.val]
    /\ UNCHANGED <<request, content, parsed>>

\* return Response(result.to_json(), mimetype="application/json")
Serialize(r) ==
    /\ state[r] = "Serializing" /\ ~Raising(r)
    /\ calls' = [calls EXCEPT ![r] = Append(@, "to_json")]
    /\ state' = [state EXCEPT ![r] = "Responded"]
    /\ response' = [response EXCEPT ![r] = ResultResponse(result[r])]
    /\ UNCHANGED <<request, content, parsed, result, raised, log>>

ErrorHandlerRetries(r) ==
    /\ Raising(r)
    /\ state' = [state EXCEPT ![r] = "Received"]
    /\ raised' = [raised EXCEPT ![r] = NoRaised]
    /\ log' = log \o HandleException(raised[r].exc).log
    /\ UNCHANGED <<request, content, parsed, result, response, calls>>

\* The error handler registered for the exception logs it and answers.
ErrorHandler(r) ==
    /\ Raising(r)
    /\ state' = [state EXCEPT ![r] = "Responded"]
    /\ log' = log \o HandleException(raised[r].exc).log
    /\ response' = [response EXCEPT ![r] = HandleException(raised[r].exc).response]
    /\ UNCHANGED <<request, content, parsed, result, calls, raised>>

\* One request, any payload.
Next ==
    \/ Arrive(1, Bodies)
    \/ ReadBody(1)
    \/ Translate(1)
    \/ Dispatch(1)
    \/ Serialize(1)
    \/ ErrorHandler(1)

Spec == Init /\ [][Next]_vars

\* A handler, once entered, runs to its return or to the exception that
\* leaves it, and the error handler of an exception runs.
FairSpec ==
    Spec /\ WF_vars(ReadBody(1) \/ Translate(1) \/ Dispatch(1) \/ Serialize(1)
                        \/ ErrorHandler(1))

\* The payloads of the requests served together.
ConcBodies ==
    { JsonNull,
      Scalar("array", TRUE),
      Scalar("string", TRUE),
      Json("object", TRUE, Some(SampleText),
           Some(<<EntityJson("PERSON", 0, 2, Absent)>>), Absent, Absent, Absent),
      Json("object", TRUE, Some(SampleText),
           Some(<<EntityJson("PERSON", 1, 1, Absent)>>),
           Some(<< <<"PERSON", OperatorJson(Some("custom"), Absent)>> >>), Absent, Absent),
      Json("object", TRUE, Some(<<"x", "y">>), Absent, Absent,
           Some(<<EntityJson("PERSON", 0, 1, Some("key"))>>), Absent) }

\* NumRequests requests served by concurrent workers.
ConcNext ==
    \E r \in Requests :
        \/ Arrive(r, ConcBodies)
        \/ ReadBody(r)
        \/ Translate(r)
        \/ Dispatch(r)
        \/ Serialize(r)
        \/ ErrorHandler(r)

ConcSpec == Init /\ [][ConcNext]_vars

(***************************************************************************)
(* Properties.                                                             *)
(***************************************************************************)
Responded(r) == state[r] = "Responded"
Called(r, name) == \E i \in 1 .. Len(calls[r]) : calls[r][i] = name
EngineCalled(r) == Called(r, "anonymize") \/ Called(r, "deanonymize")
TranslationCalls ==
    {"operators_config_from_json", "check_custom_operator",
     "analyzer_results_from_json", "deanonymize_entities_from_json"}
Logged(line) == \E i \in 1 .. Len(log) : log[i] = line

\* The payload is an object whose anonymizers mapping has an entry of kind
\* "custom".
HasCustomEntry(b) ==
    /\ b.kind = "object"
    /\ Present(b.anonymizers)
    /\ \E i \in 1 .. Len(b.anonymizers[1]) : b.anonymizers[1][i][2].type = Some("custom")

\* Every entry of the anonymizers mapping names a kind of the registry.
AllEntriesRecognized(b) ==
    \A i \in 1 .. Len(b.anonymizers[1]) :
        /\ Present(b.anonymizers[1][i][2].type)
        /\ b.anonymizers[1][i][2].type[1] \in OperatorKinds

\* C1 as stated: on /anonymize, a request whose anonymizers mapping holds an
\* operator of kind "custom" is answered 400, never 422, whatever the rest of
\* the payload (other operator entries included) holds.
C1_CustomAlwaysBadRequest ==
    \A r \in Requests :
        (Responded(r) /\ request[r].endpoint = "/anonymize"
                      /\ HasCustomEntry(request[r].body))
            => response[r].status = 400

\* C1 amended: on /anonymize, a request whose anonymizers mapping holds an
\* operator of kind "custom" and whose every entry names a recognized
\* operator kind is answered 400 "Custom type anonymizer is not supported",
\* never 422, and the engine is not called, whatever analyzer_results (well
\* formed, malformed or absent) and text hold.
C1_CustomBadRequestWhenOperatorsParse ==
    \A r \in Requests :
        (Responded(r) /\ request[r].endpoint = "/anonymize"
                      /\ HasCustomEntry(request[r].body)
                      /\ AllEntriesRecognized(request[r].body))
            => /\ response[r] = ErrorResponse(400, "Custom type anonymizer is not supported")
               /\ ~EngineCalled(r)

\* A custom operator beside a zero-width entity was answered 400.
C1_Witness ==
    \E r \in Requests :
        /\ Responded(r) /\ request[r].endpoint = "/anonymize"
        /\ HasCustomEntry(request[r].body)
        /\ AllEntriesRecognized(request[r].body)
        /\ request[r].body.analyzer_results = Some(<<EntityJson("PERSON", 1, 1, Absent)>>)
        /\ response[r].status = 400

\* C2: on /anonymize and /genz the engine is never called with an operator
\* config of kind "custom".
C2_NoCustomReachesEngine ==
    \A r \in Requests :
        (request[r].endpoint \in {"/anonymize", "/genz"} /\ Called(r, "anonymize"))
            => ~check_custom_operator(parsed[r].operators)

\* C3: on /anonymize and /deanonymize an absent body is answered 400 and
\* nothing is called after get_json: no translation step, no engine.
C3_AbsentBodyBadRequest ==
    \A r \in Requests :
        (request[r].endpoint \in {"/anonymize", "/deanonymize"}
            /\ request[r].body = JsonNull)
            => /\ state[r] \in {"Received", "Responded"}
               /\ calls[r] \in {<<>>, <<"get_json">>}
               /\ raised[r].exc \in {NoExc, BadRequest("Invalid request json")}
               /\ Responded(r) => response[r].status = 400

C3_Witness ==
    \E r \in Requests :
        /\ request[r].endpoint = "/deanonymize" /\ request[r].body = JsonNull
        /\ Responded(r) /\ response[r].status = 400

\* The status the class of a failure is answered with.
StatusOfClass(e) ==
    IF e.cls = "InvalidParamError" THEN 422
    ELSE IF e.cls = "BadRequest" THEN 400
    ELSE 500

\* C4: every failure is answered {error: string} with the status of its
\* class: 422 for InvalidParamError, 400 for BadRequest, 500 for anything
\* else, on every route and in every state of the request, /genz included; a
\* request that did not fail is answered 200.
C4_ThreeWayErrorMapping ==
    \A r \in Requests :
        Responded(r) =>
            IF raised[r].exc = NoExc THEN response[r].status = 200
            ELSE /\ response[r].status = StatusOfClass(raised[r].exc)
                 /\ response[r].mimetype = "application/json"
                 /\ response[r].text = <<>> /\ response[r].items = <<>>
                 /\ response[r].error # ""

\* A validation failure on /genz, logged by the except clause, answered 422.
C4_Witness ==
    \E r \in Requests :
        /\ Responded(r) /\ request[r].endpoint = "/genz"
        /\ raised[r].exc.cls = "InvalidParamError"
        /\ Logged(LogLine("error", "Error in /genz endpoint: ", raised[r].exc.msg))
        /\ response[r].status = 422

Unclassified(e) == e # NoExc /\ e.cls \notin {"InvalidParamError", "BadRequest"}

\* C5: two requests that fail with unclassified exceptions are sent the same
\* status and the same body whatever the exceptions say, and what each says
\* is in the log.
C5_InternalFailureOpaque ==
    \A r1, r2 \in Requests :
        (Responded(r1) /\ Responded(r2)
            /\ Unclassified(raised[r1].exc) /\ Unclassified(raised[r2].exc))
            => /\ response[r1] = response[r2]
               /\ response[r1].error = "Internal server error"
               /\ Logged(LogLine("error", "A fatal error occurred during execution: ",
                                 raised[r1].exc.msg))

\* Two requests failed with different unclassified details.
C5_Witness ==
    \E r1, r2 \in Requests :
        /\ Responded(r1) /\ Responded(r2)
        /\ Unclassified(raised[r1].exc) /\ Unclassified(raised[r2].exc)
        /\ raised[r1].exc.msg # raised[r2].exc.msg

Rank(s) ==
    CASE s = "Idle" -> 0
      [] s = "Received" -> 1
      [] s = "Translating" -> 2
      [] s = "Dispatching" -> 3
      [] s = "Serializing" -> 4
      [] OTHER -> 5

\* The number of engine calls among the calls of r.
EngineCalls(r) ==
    Cardinality({ i \in 1 .. Len(calls[r]) : calls[r][i] \in {"anonymize", "deanonymize"} })

\* One step of request r through the pipeline: to the next state, or, once
\* an exception was raised, from the state it was raised in straight to
\* Responded with an error response; an exception is raised at most once.
PipelineStep(r) ==
    /\ state'[r] # state[r] =>
           IF raised[r].exc = NoExc
           THEN Rank(state'[r]) = Rank(state[r]) + 1
           ELSE /\ state[r] \notin {"Idle", "Responded"}
                /\ state'[r] = "Responded"
                /\ raised'[r] = raised[r]
                /\ response'[r].status >= 400
    /\ raised'[r] # raised[r] =>
           /\ raised[r] = NoRaised
           /\ state'[r] = state[r]
           /\ raised'[r].in = state[r]

\* C6: every request goes Received, Translating, Dispatching, Serializing,
\* Responded in that order; a failure in any state takes it straight to
\* Responded with an error; no state is entered twice and the engine is
\* called at most once; once Responded the request and its response stay as
\* they are; every request received is eventually Responded.
C6_Pipeline ==
    /\ [][\A r \in Requests : PipelineStep(r)]_vars
    /\ [][\A r \in Requests : Responded(r) => (Responded(r))' /\ response'[r] = response[r]]_vars
    /\ [](\A r \in Requests : /\ EngineCalls(r) <= 1
                              /\ Responded(r) <=> response[r] # NoResponse)
    /\ \A r \in Requests : (state[r] = "Received") ~> Responded(r)

\* A request went through every state and was answered 200.
C6_Witness ==
    \E r \in Requests :
        /\ Responded(r) /\ request[r].endpoint \in {"/anonymize", "/deanonymize"}
        /\ EngineCalls(r) = 1 /\ Called(r, "to_json") /\ response[r].status = 200

\* What the handler of the route hands to the entity and the operator
\* translation.
EntityTranslation(endpoint, c) ==
    CASE endpoint = "/anonymize" -> analyzer_results_from_json(c.analyzer_results)
      [] endpoint = "/deanonymize" -> deanonymize_entities_from_json(c)
      [] OTHER -> analyzer_results_from_json(Some(Get(c.analyzer_results, <<>>)))
OperatorTranslation(endpoint, c) ==
    CASE endpoint = "/anonymize" -> operators_config_from_json(c.anonymizers)
      [] endpoint = "/deanonymize" -> operators_config_from_json(c.deanonymizers)
      [] OTHER -> operators_config_from_json(Some(Get(c.anonymizers, <<>>)))

\* C7: a request whose translation raised a validation error goes nowhere but
\* to its answer, which is 422, and its engine is never called; the engine is called only once both the
\* entity list and the operator configs of the request have been translated
\* without error, and with what they were translated to.
C7_NoDispatchAfterValidationError ==
    \A r \in Requests :
        /\ (raised[r].in = "Translating" /\ raised[r].exc.cls = "InvalidParamError")
               => /\ state[r] \in {"Translating", "Responded"}
                  /\ Responded(r) => response[r].status = 422
                  /\ ~EngineCalled(r)
        /\ EngineCalled(r)
               => /\ ~Failed(EntityTranslation(request[r].endpoint, request[r].body))
                  /\ ~Failed(OperatorTranslation(request[r].endpoint, request[r].body))
                  /\ parsed[r].entities =
                         EntityTranslation(request[r].endpoint, request[r].body).val
                  /\ parsed[r].operators =
                         OperatorTranslation(request[r].endpoint, request[r].body).val

\* A zero-width entity was answered 422 at translation time.
C7_Witness ==
    \E r \in Requests :
        /\ Responded(r) /\ request[r].endpoint = "/anonymize"
        /\ request[r].body.analyzer_results = Some(<<EntityJson("PERSON", 1, 1, Absent)>>)
        /\ raised[r].in = "Translating" /\ raised[r].exc.cls = "InvalidParamError"
        /\ response[r].status = 422 /\ ~EngineCalled(r)

\* Non-empty text, empty analyzer_results, no anonymizers.
Scenario2(b) ==
    /\ b.kind = "object"
    /\ Present(b.text) /\ b.text[1] # <<>>
    /\ b.analyzer_results = Some(<<>>)
    /\ ~Present(b.anonymizers)

\* C8: on /anonymize a request with non-empty text, an empty analyzer_results
\* list and no anonymizers never fails: it is translated, with the implicit
\* DEFAULT rule for operators, dispatched, and answered 200 with the input
\* text unchanged and no items.
C8_EmptyAnalyzerResultsUnchanged ==
    \A r \in Requests :
        (request[r].endpoint = "/anonymize" /\ Scenario2(request[r].body))
            => /\ raised[r] = NoRaised
               /\ Rank(state[r]) >= 3 => parsed[r].operators = DefaultOperators
               /\ Responded(r)
                      => /\ EngineCalled(r)
                         /\ response[r] =
                                ResultResponse([text |-> request[r].body.text[1],
                                                items |-> <<>>])

C8_Witness ==
    \E r \in Requests :
        /\ request[r].endpoint = "/anonymize" /\ Scenario2(request[r].body)
        /\ Responded(r) /\ response[r].status = 200
        /\ response[r].text = SampleText

\* The response of a request served alone.
SoloResponse(req) ==
    IF BodyCheck(req.body) # NoExc THEN HandleException(BodyCheck(req.body)).response
    ELSE LET t == TranslateOf(req.endpoint, req.body)
         IN  IF t.exc # NoExc THEN HandleException(t.exc).response
             ELSE LET e == EngineOf(req.endpoint, t)
                  IN  IF Failed(e) THEN HandleException(e.exc).response
                      ELSE ResultResponse(e.val)

\* What belongs to request r alone.
Locals(r) ==
    <<state[r], request[r], content[r], parsed[r], result[r], response[r],
      calls[r], raised[r]>>

\* C9: with several requests served together, in any interleaving, each is
\* answered as it would be alone, and a step of one request changes nothing
\* that belongs to another.
C9_RequestsIndependent ==
    /\ [](\A r \in Requests : Responded(r) => response[r] = SoloResponse(request[r]))
    /\ [][\A r1, r2 \in Requests :
              (r1 # r2 /\ Locals(r1)' # Locals(r1)) => Locals(r2)' = Locals(r2)]_vars

\* Two requests to the same route, one answered while the other is still
\* being served, then both answered differently.
C9_Witness ==
    \E r1, r2 \in Requests :
        /\ r1 # r2
        /\ request[r1].endpoint = request[r2].endpoint
        /\ request[r1].body # request[r2].body
        /\ Responded(r1) /\ state[r2] = "Dispatching"
        /\ response[r1].status = 422

\* A body that parses as JSON and is falsy without being null.
FalsyNotNull(b) == b # JsonNull /\ ~Truthy(b)

\* C10: on the three routes a body that is {} , [], 0, false or "" is
\* answered like an absent one: 400 "Invalid request json", and nothing is
\* called after get_json.
C10_FalsyBodyBadRequest ==
    \A r \in Requests :
        FalsyNotNull(request[r].body)
            => /\ state[r] \in {"Received", "Responded"}
               /\ calls[r] \in {<<>>, <<"get_json">>}
               /\ raised[r].exc \in {NoExc, BadRequest("Invalid request json")}
               /\ Responded(r) => response[r] = ErrorResponse(400, "Invalid request json")

\* The empty object was answered 400 on /genz.
C10_Witness ==
    \E r \in Requests :
        /\ request[r].endpoint = "/genz"
        /\ request[r].body.kind = "object" /\ ~Truthy(request[r].body)
        /\ Responded(r) /\ response[r].status = 400

====
